---- MODULE Spec2Model ----
(***************************************************************************)
(* Model of songho/torus, class Torus (Torus.h / Torus.cpp).               *)
(*                                                                         *)
(* A float is modelled as a fixed-point integer with SCALE units per 1.0,  *)
(* extended with the IEEE values NaN, +Inf and -Inf that the code can      *)
(* produce (1.0f / minorRadius with a zero radius).  The std::vector       *)
(* members are flat sequences, exactly as in the class: 3 floats per       *)
(* vertex and normal, 2 per texture coordinate, 8 per interleaved record.  *)
(***************************************************************************)
EXTENDS Integers, Sequences, FiniteSets, TLC

\* ------------------------------------------------------------------------
\* bounds of the model
\* ------------------------------------------------------------------------
MaxSectorCount == 4
MaxSideCount == 3

\* ------------------------------------------------------------------------
\* float arithmetic
\* ------------------------------------------------------------------------
SCALE == 1000
NaN == 999999999
PosInf == 999999998
NegInf == 0 - 999999998

IsNaN(a) == a = NaN
IsInf(a) == a = PosInf \/ a = NegInf
Finite(a) == a < PosInf /\ a > NegInf
Sign(a) == IF a < 0 THEN 0 - 1 ELSE IF a > 0 THEN 1 ELSE 0
\* rounding of a quotient is modelled as truncation toward zero (b > 0)
TruncDiv(a, b) == IF a >= 0 THEN a \div b ELSE 0 - ((0 - a) \div b)

FNeg(a) == IF IsNaN(a) THEN NaN ELSE 0 - a

FAdd(a, b) ==
    IF Finite(a) /\ Finite(b) THEN a + b
    ELSE IF IsNaN(a) \/ IsNaN(b) THEN NaN
    ELSE IF IsInf(a) /\ IsInf(b) THEN (IF a = b THEN a ELSE NaN)
    ELSE IF IsInf(a) THEN a
    ELSE b

FSub(a, b) == FAdd(a, FNeg(b))

FMul(a, b) ==
    IF Finite(a) /\ Finite(b) THEN TruncDiv(a * b, SCALE)
    ELSE IF IsNaN(a) \/ IsNaN(b) THEN NaN
    ELSE IF a = 0 \/ b = 0 THEN NaN
    ELSE IF Sign(a) * Sign(b) > 0 THEN PosInf
    ELSE NegInf

FDiv(a, b) ==
    IF Finite(a) /\ Finite(b) /\ b # 0
    THEN (IF b > 0 THEN TruncDiv(a * SCALE, b) ELSE TruncDiv(0 - a * SCALE, 0 - b))
    ELSE IF IsNaN(a) \/ IsNaN(b) THEN NaN
    ELSE IF IsInf(a) THEN (IF IsInf(b) THEN NaN
                           ELSE IF (a > 0) = (b >= 0) THEN PosInf ELSE NegInf)
    ELSE IF IsInf(b) THEN 0
    ELSE IF a = 0 THEN NaN
    ELSE IF a > 0 THEN PosInf
    ELSE NegInf

\* a > b and a != b on floats: every comparison with a NaN is false, but !=
FGt(a, b) == ~IsNaN(a) /\ ~IsNaN(b) /\ a > b
FNe(a, b) == IsNaN(a) \/ IsNaN(b) \/ a # b

\* (float)i of an int
ToFloat(i) == i * SCALE

RECURSIVE ISqrtFrom(_, _)
ISqrtFrom(x, g) ==
    LET h == (g + x \div g) \div 2
    IN  IF h >= g THEN g ELSE ISqrtFrom(x, h)
ISqrt(x) == IF x <= 0 THEN 0 ELSE ISqrtFrom(x, x)

sqrtf(a) ==
    IF IsNaN(a) \/ a = NegInf \/ a < 0 THEN NaN
    ELSE IF a = PosInf THEN PosInf
    ELSE ISqrt(a * SCALE)

\* acos(-1.0f)
PI == 3142

\* cosine of an angle in [0, PI/2], by its Taylor polynomial up to x^8
CosCore(a) ==
    LET x2 == (a * a) \div SCALE
        t4 == SCALE - x2 \div 56
        t3 == SCALE - ((x2 * t4) \div SCALE) \div 30
        t2 == SCALE - ((x2 * t3) \div SCALE) \div 12
    IN  SCALE - ((x2 * t2) \div SCALE) \div 2

cosf(x) ==
    IF IsNaN(x) \/ IsInf(x) THEN NaN
    ELSE LET a == (IF x < 0 THEN 0 - x ELSE x) % (2 * PI)
             b == IF a > PI THEN 2 * PI - a ELSE a
         IN  IF 2 * b > PI THEN 0 - CosCore(PI - b) ELSE CosCore(b)

sinf(x) ==
    IF IsNaN(x) \/ IsInf(x) THEN NaN
    ELSE cosf(x - PI \div 2)

\* ------------------------------------------------------------------------
\* constants of Torus.cpp
\* ------------------------------------------------------------------------
MIN_SECTOR_COUNT == 3
MIN_SIDE_COUNT == 2
EPSILON == 0

\* ------------------------------------------------------------------------
\* helpers on std::vector
\* ------------------------------------------------------------------------
\* v[i] with the 0-based index of the code
At(v, i) == v[i + 1]

addVertex(t, x, y, z) == [t EXCEPT !.vertices = @ \o <<x, y, z>>]
addNormal(t, nx, ny, nz) == [t EXCEPT !.normals = @ \o <<nx, ny, nz>>]
addTexCoord(t, s, tt) == [t EXCEPT !.texCoords = @ \o <<s, tt>>]
addIndices(t, i1, i2, i3) == [t EXCEPT !.indices = @ \o <<i1, i2, i3>>]
addLine(t, i1, i2) == [t EXCEPT !.lineIndices = @ \o <<i1, i2>>]

\* fault injection: clearArrays that leaves the arrays as they are
arraysKept(t) == t

clearArrays(t) ==
    [t EXCEPT !.vertices = <<>>, !.normals = <<>>, !.texCoords = <<>>,
              !.indices = <<>>, !.lineIndices = <<>>]

\* ------------------------------------------------------------------------
\* Torus::buildInterleavedVertices
\* ------------------------------------------------------------------------
RECURSIVE interleaveLoop(_, _, _, _)
interleaveLoop(t, i, j, out) ==
    IF i < Len(t.vertices)
    THEN interleaveLoop(t, i + 3, j + 2,
             out \o << At(t.vertices, i), At(t.vertices, i + 1), At(t.vertices, i + 2),
                       At(t.normals, i), At(t.normals, i + 1), At(t.normals, i + 2),
                       At(t.texCoords, j), At(t.texCoords, j + 1) >>)
    ELSE out

\* fault injection: the interleaved records appended to the old buffer
interleavedAppended(t) ==
    [t EXCEPT !.interleavedVertices = interleaveLoop(t, 0, 0, @)]

buildInterleavedVertices(t) ==
    [t EXCEPT !.interleavedVertices = interleaveLoop(t, 0, 0, <<>>)]

\* ------------------------------------------------------------------------
\* Torus::changeUpAxis
\* ------------------------------------------------------------------------
\* fault injection: the X-to-Y matrix whatever the two axes are
upAxisMatrixFixed(from, to) ==
    [tx |-> <<0, ToFloat(1), 0>>, ty |-> <<ToFloat(0 - 1), 0, 0>>,
     tz |-> <<0, 0, ToFloat(1)>>]

\* the columns tx, ty, tz of the transform matrix for (from, to)
upAxisMatrix(from, to) ==
    LET one == ToFloat(1)
        neg == ToFloat(0 - 1)
    IN  IF from = 1 /\ to = 2 THEN
            [tx |-> <<0, one, 0>>, ty |-> <<neg, 0, 0>>, tz |-> <<0, 0, one>>]
        ELSE IF from = 1 /\ to = 3 THEN
            [tx |-> <<0, 0, one>>, ty |-> <<0, one, 0>>, tz |-> <<neg, 0, 0>>]
        ELSE IF from = 2 /\ to = 1 THEN
            [tx |-> <<0, neg, 0>>, ty |-> <<one, 0, 0>>, tz |-> <<0, 0, one>>]
        ELSE IF from = 2 /\ to = 3 THEN
            [tx |-> <<one, 0, 0>>, ty |-> <<0, 0, one>>, tz |-> <<0, neg, 0>>]
        ELSE IF from = 3 /\ to = 1 THEN
            [tx |-> <<0, 0, neg>>, ty |-> <<0, one, 0>>, tz |-> <<one, 0, 0>>]
        ELSE
            [tx |-> <<one, 0, 0>>, ty |-> <<0, 0, neg>>, tz |-> <<0, one, 0>>]

\* tx[k] * vx + ty[k] * vy + tz[k] * vz, for the 0-based row k
transformRow(m, k, vx, vy, vz) ==
    IF Finite(vx) /\ Finite(vy) /\ Finite(vz)
    THEN TruncDiv(At(m.tx, k) * vx, SCALE) + TruncDiv(At(m.ty, k) * vy, SCALE)
             + TruncDiv(At(m.tz, k) * vz, SCALE)
    ELSE FAdd(FAdd(FMul(At(m.tx, k), vx), FMul(At(m.ty, k), vy)), FMul(At(m.tz, k), vz))

\* The loop "for(i = 0, j = 0; i < count; i += 3, j += 8)" handles one vertex
\* per iteration and no iteration reads what another wrote, so its result is
\* given element by element: element k of vertices and of normals is written
\* by the iteration with i = 3 * (k \div 3), element k of interleavedVertices
\* by the iteration with j = 8 * (k \div 8) when k - j < 6.
transformed(m, v, count) ==
    [e \in 1..Len(v) |->
        LET k == e - 1
            i == 3 * (k \div 3)
        IN  IF i < count
            THEN transformRow(m, k % 3, At(v, i), At(v, i + 1), At(v, i + 2))
            ELSE v[e]]

mirrored(iv, vs, ns, count) ==
    [e \in 1..Len(iv) |->
        LET k == e - 1
            i == 3 * (k \div 8)
            f == k % 8
        IN  IF i < count /\ f < 3 THEN At(vs, i + f)
            ELSE IF i < count /\ f < 6 THEN At(ns, i + f - 3)
            ELSE iv[e]]

changeUpAxisLoop(t, m) ==
    LET count == Len(t.vertices)
        vs == transformed(m, t.vertices, count)
        ns == transformed(m, t.normals, count)
    IN  [t EXCEPT !.vertices = vs, !.normals = ns,
                  !.interleavedVertices = mirrored(@, vs, ns, count)]

changeUpAxis(t, from, to) == changeUpAxisLoop(t, upAxisMatrix(from, to))

\* fault injection: builders that leave the arrays in the Z-up frame
remapSkipped(t) == t

\* the tail of both builders: "change up axis from Z-axis to the given"
remapFromZ(t) == IF t.upAxis # 3 THEN changeUpAxis(t, 3, t.upAxis) ELSE t

\* ------------------------------------------------------------------------
\* Torus::buildVerticesSmooth
\* ------------------------------------------------------------------------
sectorStep(t) == FDiv(2 * PI, ToFloat(t.sectorCount))
sideStep(t) == FDiv(2 * PI, ToFloat(t.sideCount))
sideAngle(t, i) == FSub(PI, FMul(ToFloat(i), sideStep(t)))
sectorAngle(t, j) == FMul(ToFloat(j), sectorStep(t))
\* (float)j / sectorCount and (float)i / sideCount
texS(t, j) == FDiv(ToFloat(j), ToFloat(t.sectorCount))
texT(t, i) == FDiv(ToFloat(i), ToFloat(t.sideCount))

\* body of the inner vertex loop for side i, sector j
smoothVertex(t, i, j) ==
    LET lengthInv == FDiv(ToFloat(1), t.minorRadius)
        xy == FMul(t.minorRadius, cosf(sideAngle(t, i)))
        z == FMul(t.minorRadius, sinf(sideAngle(t, i)))
        x0 == FMul(xy, cosf(sectorAngle(t, j)))
        y0 == FMul(xy, sinf(sectorAngle(t, j)))
        nx == FMul(x0, lengthInv)
        ny == FMul(y0, lengthInv)
        nz == FMul(z, lengthInv)
        x == FAdd(x0, FMul(t.majorRadius, cosf(sectorAngle(t, j))))
        y == FAdd(y0, FMul(t.majorRadius, sinf(sectorAngle(t, j))))
    IN  addTexCoord(addVertex(addNormal(t, nx, ny, nz), x, y, z), texS(t, j), texT(t, i))

RECURSIVE smoothSectorLoop(_, _, _)
smoothSectorLoop(t, i, j) ==
    IF j <= t.sectorCount
    THEN smoothSectorLoop(smoothVertex(t, i, j), i, j + 1)
    ELSE t

RECURSIVE smoothSideLoop(_, _)
smoothSideLoop(t, i) ==
    IF i <= t.sideCount
    THEN smoothSideLoop(smoothSectorLoop(t, i, 0), i + 1)
    ELSE t

\* fault injection: the inner index loop's body with the last corner of the
\* second triangle one vertex too far
smoothCellPastEnd(t, k1, k2) ==
    addLine(addLine(addIndices(addIndices(t, k1, k2, k1 + 1), k1 + 1, k2, k2 + 2),
                    k1, k2), k1, k1 + 1)

\* fault injection: the inner index loop's body with the horizontal line
\* before the vertical one
smoothCellEdgesSwapped(t, k1, k2) ==
    addLine(addLine(addIndices(addIndices(t, k1, k2, k1 + 1), k1 + 1, k2, k2 + 1),
                    k1, k1 + 1), k1, k2)

\* body of the inner index loop
smoothCell(t, k1, k2) ==
    addLine(addLine(addIndices(addIndices(t, k1, k2, k1 + 1), k1 + 1, k2, k2 + 1),
                    k1, k2), k1, k1 + 1)

RECURSIVE smoothIndexSectorLoop(_, _, _, _)
smoothIndexSectorLoop(t, j, k1, k2) ==
    IF j < t.sectorCount
    THEN smoothIndexSectorLoop(smoothCell(t, k1, k2), j + 1, k1 + 1, k2 + 1)
    ELSE t

RECURSIVE smoothIndexSideLoop(_, _)
smoothIndexSideLoop(t, i) ==
    IF i < t.sideCount
    THEN LET k1 == i * (t.sectorCount + 1)
             k2 == k1 + t.sectorCount + 1
         IN  smoothIndexSideLoop(smoothIndexSectorLoop(t, 0, k1, k2), i + 1)
    ELSE t

buildVerticesSmooth(t) ==
    remapFromZ(buildInterleavedVertices(
        smoothIndexSideLoop(smoothSideLoop(clearArrays(t), 0), 0)))

\* ------------------------------------------------------------------------
\* Torus::computeFaceNormal
\* ------------------------------------------------------------------------
computeFaceNormal(x1, y1, z1, x2, y2, z2, x3, y3, z3) ==
    LET ex1 == FSub(x2, x1)
        ey1 == FSub(y2, y1)
        ez1 == FSub(z2, z1)
        ex2 == FSub(x3, x1)
        ey2 == FSub(y3, y1)
        ez2 == FSub(z3, z1)
        nx == FSub(FMul(ey1, ez2), FMul(ez1, ey2))
        ny == FSub(FMul(ez1, ex2), FMul(ex1, ez2))
        nz == FSub(FMul(ex1, ey2), FMul(ey1, ex2))
        length == sqrtf(FAdd(FAdd(FMul(nx, nx), FMul(ny, ny)), FMul(nz, nz)))
        lengthInv == FDiv(ToFloat(1), length)
    IN  IF FGt(length, EPSILON)
        THEN << FMul(nx, lengthInv), FMul(ny, lengthInv), FMul(nz, lengthInv) >>
        ELSE << 0, 0, 0 >>

\* ------------------------------------------------------------------------
\* Torus::buildVerticesFlat
\* ------------------------------------------------------------------------
\* body of the inner loop that fills tmpVertices
flatVertex(t, i, j) ==
    LET xy == FAdd(t.majorRadius, FMul(t.minorRadius, cosf(sideAngle(t, i))))
        z == FMul(t.minorRadius, sinf(sideAngle(t, i)))
    IN  [x |-> FMul(xy, cosf(sectorAngle(t, j))),
         y |-> FMul(xy, sinf(sectorAngle(t, j))),
         z |-> z,
         s |-> texS(t, j),
         t |-> texT(t, i)]

RECURSIVE flatSectorLoop(_, _, _, _)
flatSectorLoop(t, tmpVertices, i, j) ==
    IF j <= t.sectorCount
    THEN flatSectorLoop(t, Append(tmpVertices, flatVertex(t, i, j)), i, j + 1)
    ELSE tmpVertices

RECURSIVE flatSideLoop(_, _, _)
flatSideLoop(t, tmpVertices, i) ==
    IF i <= t.sideCount
    THEN flatSideLoop(t, flatSectorLoop(t, tmpVertices, i, 0), i + 1)
    ELSE tmpVertices

\* fault injection: the face normal added three times and its opposite once
addFaceNormalsLastFlipped(t, n, k) ==
    addNormal(addNormal(addNormal(addNormal(t, At(n, 0), At(n, 1), At(n, 2)),
                                  At(n, 0), At(n, 1), At(n, 2)),
                        At(n, 0), At(n, 1), At(n, 2)),
              FNeg(At(n, 0)), FNeg(At(n, 1)), FNeg(At(n, 2)))

\* k times addNormal(n[0], n[1], n[2])
RECURSIVE addFaceNormals(_, _, _)
addFaceNormals(t, n, k) ==
    IF k < 4
    THEN addFaceNormals(addNormal(t, At(n, 0), At(n, 1), At(n, 2)), n, k + 1)
    ELSE t

\* body of the inner quad loop
flatQuad(t, tmpVertices, vi1, vi2, index) ==
    LET v1 == At(tmpVertices, vi1)
        v2 == At(tmpVertices, vi2)
        v3 == At(tmpVertices, vi1 + 1)
        v4 == At(tmpVertices, vi2 + 1)
        a == addVertex(addVertex(addVertex(addVertex(t, v1.x, v1.y, v1.z),
                 v2.x, v2.y, v2.z), v3.x, v3.y, v3.z), v4.x, v4.y, v4.z)
        b == addTexCoord(addTexCoord(addTexCoord(addTexCoord(a, v1.s, v1.t),
                 v2.s, v2.t), v3.s, v3.t), v4.s, v4.t)
        n == computeFaceNormal(v1.x, v1.y, v1.z, v2.x, v2.y, v2.z, v3.x, v3.y, v3.z)
        c == addFaceNormals(b, n, 0)
        d == addIndices(addIndices(c, index, index + 1, index + 2),
                 index + 2, index + 1, index + 3)
    IN  addLine(addLine(d, index, index + 1), index, index + 2)

\* the quad loops carry the running vertex index of the code: q.t is the
\* object, q.index the variable index
RECURSIVE flatQuadSectorLoop(_, _, _, _, _)
flatQuadSectorLoop(q, tmpVertices, j, vi1, vi2) ==
    IF j < q.t.sectorCount
    THEN flatQuadSectorLoop(
             [t |-> flatQuad(q.t, tmpVertices, vi1, vi2, q.index), index |-> q.index + 4],
             tmpVertices, j + 1, vi1 + 1, vi2 + 1)
    ELSE q

RECURSIVE flatQuadSideLoop(_, _, _)
flatQuadSideLoop(q, tmpVertices, i) ==
    IF i < q.t.sideCount
    THEN LET vi1 == i * (q.t.sectorCount + 1)
             vi2 == (i + 1) * (q.t.sectorCount + 1)
         IN  flatQuadSideLoop(flatQuadSectorLoop(q, tmpVertices, 0, vi1, vi2),
                              tmpVertices, i + 1)
    ELSE q

\* flatSideLoop(t, <<>>, 0) is the local vector tmpVertices, filled before
\* clearArrays; the quad loops start with index = 0
buildVerticesFlat(t) ==
    remapFromZ(buildInterleavedVertices(
        flatQuadSideLoop([t |-> clearArrays(t), index |-> 0],
                         flatSideLoop(t, <<>>, 0), 0).t))

\* ------------------------------------------------------------------------
\* Torus::reverseNormals
\* ------------------------------------------------------------------------
\* The first loop, "for(i = 0, j = 3; i < count; i += 3, j += 8)", negates one
\* normal per iteration and copies it to the interleaved record; the second,
\* "for(i = 0; i < count; i += 3)", swaps indices[i] and indices[i+2].  No
\* iteration reads what another wrote, so the results are given element by
\* element.
negated(ns) == [e \in 1..Len(ns) |-> FMul(ns[e], ToFloat(0 - 1))]

\* fault injection: the first loop without the copy to interleavedVertices
normalsNotMirrored(iv, ns) == iv

\* element k of interleavedVertices is written by the iteration with
\* j = 8 * (k \div 8) + 3 when 3 <= k - 8 * (k \div 8) < 6
normalsMirrored(iv, ns) ==
    [e \in 1..Len(iv) |->
        LET k == e - 1
            i == 3 * (k \div 8)
            f == k % 8
        IN  IF i < Len(ns) /\ f >= 3 /\ f < 6 THEN At(ns, i + f - 3) ELSE iv[e]]

\* fault injection: the swap without the temporary, indices[i] = indices[i+2]
\* followed by indices[i+2] = indices[i]
windingOverwritten(ix) ==
    [e \in 1..Len(ix) |-> IF (e - 1) % 3 = 0 THEN At(ix, (e - 1) + 2) ELSE ix[e]]

windingReversed(ix) ==
    [e \in 1..Len(ix) |->
        LET k == e - 1
        IN  IF k % 3 = 0 THEN At(ix, k + 2)
            ELSE IF k % 3 = 2 THEN At(ix, k - 2)
            ELSE ix[e]]

\* fault injection: reverseNormals that reverses the line indices as well
reverseNormalsAndLines(t) ==
    [t EXCEPT !.normals = negated(t.normals),
              !.interleavedVertices = normalsMirrored(@, negated(t.normals)),
              !.indices = windingReversed(@),
              !.lineIndices = [e \in 1..Len(@) |-> @[Len(@) + 1 - e]]]

reverseNormals(t) ==
    [t EXCEPT !.normals = negated(t.normals),
              !.interleavedVertices = normalsMirrored(@, negated(t.normals)),
              !.indices = windingReversed(@)]

\* ------------------------------------------------------------------------
\* inputs of the calls
\* ------------------------------------------------------------------------
MajorRadiusInputs == {ToFloat(0 - 1), ToFloat(2), ToFloat(3)}
MinorRadiusInputs == {0, ToFloat(2)}
SectorInputs == (MIN_SECTOR_COUNT - 2)..MaxSectorCount
SideInputs == (MIN_SIDE_COUNT - 2)..MaxSideCount
UpInputs == 0..4
\* the constructor and set take six arguments at once: they are given both
\* counts below the minimum with smooth shading or both at the largest value
\* with flat shading, and one of two major radii
SetShapeInputs ==
    { << MIN_SECTOR_COUNT - 2, MIN_SIDE_COUNT - 2, TRUE >>,
      << MaxSectorCount, MaxSideCount, FALSE >> }
SetMajorRadiusInputs == {ToFloat(0 - 1), ToFloat(3)}
\* what the float members may hold before the constructor assigns them
UninitFloats == {0, ToFloat(2)}

\* ------------------------------------------------------------------------
\* the builders, evaluated once per parameter tuple
\* ------------------------------------------------------------------------
buildDirect(t) == IF t.smooth THEN buildVerticesSmooth(t) ELSE buildVerticesFlat(t)

\* An object without arrays.  Both builders start from clearArrays and
\* buildInterleavedVertices replaces interleavedVertices, so a build of t is
\* the build of NoArrays(t) whenever clearArrays leaves nothing else of t.
NoArrays(t) ==
    [t EXCEPT !.vertices = <<>>, !.normals = <<>>, !.texCoords = <<>>,
              !.indices = <<>>, !.lineIndices = <<>>, !.interleavedVertices = <<>>]

Object(R, r, sectors, sides, sm, up) ==
    [majorRadius |-> R, minorRadius |-> r, sectorCount |-> sectors,
     sideCount |-> sides, smooth |-> sm, upAxis |-> up,
     vertices |-> <<>>, normals |-> <<>>, texCoords |-> <<>>,
     indices |-> <<>>, lineIndices |-> <<>>, interleavedVertices |-> <<>>]

BuildKeys ==
    ({x \in MajorRadiusInputs : x > 0} \cup UninitFloats)
        \X ({x \in MinorRadiusInputs : x > 0} \cup UninitFloats)
        \X (MIN_SECTOR_COUNT..MaxSectorCount) \X (MIN_SIDE_COUNT..MaxSideCount)
        \X BOOLEAN \X (1..3)

BuildTable ==
    [k \in BuildKeys |-> buildDirect(Object(k[1], k[2], k[3], k[4], k[5], k[6]))] @@ <<>>

KeyOf(t) ==
    << t.majorRadius, t.minorRadius, t.sectorCount, t.sideCount, t.smooth, t.upAxis >>

build(t) ==
    IF /\ [clearArrays(t) EXCEPT !.interleavedVertices = <<>>] = NoArrays(t)
       /\ KeyOf(t) \in DOMAIN BuildTable
    THEN BuildTable[KeyOf(t)]
    ELSE buildDirect(t)

\* ------------------------------------------------------------------------
\* Torus::set and the single-field setters, as functions of the object
\* ------------------------------------------------------------------------
\* if(r > 0) this->radius = r;
storedRadius(old, r) == IF FGt(r, 0) THEN r ELSE old
\* fault injection: the sector count stored as given
sectorCountUnclamped(sectors) == sectors
clampSectorCount(sectors) ==
    IF sectors < MIN_SECTOR_COUNT THEN MIN_SECTOR_COUNT ELSE sectors
clampSideCount(sides) ==
    IF sides < MIN_SIDE_COUNT THEN MIN_SIDE_COUNT ELSE sides
\* fault injection: the up axis stored as given
upAxisUnclamped(up) == up
clampUpAxis(up) == IF up < 1 \/ up > 3 THEN 3 ELSE up

set(t, majorR, minorR, sectors, sides, sm, up) ==
    build([t EXCEPT !.majorRadius = storedRadius(@, majorR),
                    !.minorRadius = storedRadius(@, minorR),
                    !.sectorCount = clampSectorCount(sectors),
                    !.sideCount = clampSideCount(sides),
                    !.smooth = sm,
                    !.upAxis = clampUpAxis(up)])

setMajorRadius(t, r) ==
    IF FNe(r, t.majorRadius)
    THEN set(t, r, t.minorRadius, t.sectorCount, t.sideCount, t.smooth, t.upAxis)
    ELSE t

setMinorRadius(t, r) ==
    IF FNe(r, t.minorRadius)
    THEN set(t, t.majorRadius, r, t.sectorCount, t.sideCount, t.smooth, t.upAxis)
    ELSE t

\* fault injection: setSectorCount that stores the count and builds nothing
setSectorCountStoredOnly(t, sectors) ==
    [t EXCEPT !.sectorCount = clampSectorCount(sectors)]

setSectorCount(t, sectors) ==
    IF sectors # t.sectorCount
    THEN set(t, t.majorRadius, t.minorRadius, sectors, t.sideCount, t.smooth, t.upAxis)
    ELSE t

setSideCount(t, sides) ==
    IF sides # t.sideCount
    THEN set(t, t.majorRadius, t.minorRadius, t.sectorCount, sides, t.smooth, t.upAxis)
    ELSE t

\* fault injection: setSmooth that sets the flag and builds nothing
setSmoothFlagOnly(t, sm) == [t EXCEPT !.smooth = sm]

setSmooth(t, sm) ==
    IF t.smooth = sm THEN t ELSE build([t EXCEPT !.smooth = sm])

\* fault injection: setUpAxis that takes an up axis outside 1..3 as Z
setUpAxisClamped(t, up) ==
    IF t.upAxis = clampUpAxis(up)
    THEN t
    ELSE [changeUpAxis(t, t.upAxis, clampUpAxis(up)) EXCEPT !.upAxis = clampUpAxis(up)]

setUpAxis(t, up) ==
    IF t.upAxis = up \/ up < 1 \/ up > 3
    THEN t
    ELSE [changeUpAxis(t, t.upAxis, up) EXCEPT !.upAxis = up]

\* ------------------------------------------------------------------------
\* state: the members of a Torus object, and a record of the last call
\* ------------------------------------------------------------------------
VARIABLES majorRadius, minorRadius, sectorCount, sideCount, smooth, upAxis,
          vertices, normals, texCoords, indices, lineIndices,
          interleavedVertices,
          op,      \* name of the last public member function called
          arg,     \* its arguments
          pre,     \* the object before that call, kept by the calls that work
                   \* on the arrays in place (setUpAxis, reverseNormals)
          roundTrip \* that call and the one before it were two reverseNormals
                    \* calls, or two setUpAxis calls of which the first left
                    \* the up axis that the second returned to

vars == << majorRadius, minorRadius, sectorCount, sideCount, smooth, upAxis,
           vertices, normals, texCoords, indices, lineIndices,
           interleavedVertices, op, arg, pre, roundTrip >>

\* the object as a record
This ==
    [majorRadius |-> majorRadius, minorRadius |-> minorRadius,
     sectorCount |-> sectorCount, sideCount |-> sideCount,
     smooth |-> smooth, upAxis |-> upAxis,
     vertices |-> vertices, normals |-> normals, texCoords |-> texCoords,
     indices |-> indices, lineIndices |-> lineIndices,
     interleavedVertices |-> interleavedVertices]

NoArg == [majorR |-> 0, minorR |-> 0, sectors |-> 0, sides |-> 0,
          smooth |-> FALSE, up |-> 0]
Args(majorR, minorR, sectors, sides, sm, up) ==
    [majorR |-> majorR, minorR |-> minorR, sectors |-> sectors, sides |-> sides,
     smooth |-> sm, up |-> up]

\* the object before the constructor body runs: the vectors are empty, the
\* scalar members are not initialized (the floats hold gR and gr)
Uninitialized(gR, gr) == Object(gR, gr, 0, 0, FALSE, 0)
NoObject == Object(0, 0, 0, 0, FALSE, 0)

\* the members become those of t
Becomes(t) ==
    /\ majorRadius' = t.majorRadius
    /\ minorRadius' = t.minorRadius
    /\ sectorCount' = t.sectorCount
    /\ sideCount' = t.sideCount
    /\ smooth' = t.smooth
    /\ upAxis' = t.upAxis
    /\ vertices' = t.vertices
    /\ normals' = t.normals
    /\ texCoords' = t.texCoords
    /\ indices' = t.indices
    /\ lineIndices' = t.lineIndices
    /\ interleavedVertices' = t.interleavedVertices

\* the call name(a) of a function that rebuilds the arrays
Rebuild(name, a, t) ==
    /\ Becomes(t)
    /\ op' = name
    /\ arg' = a
    /\ pre' = NoObject
    /\ roundTrip' = FALSE

\* the call name(a) of a function that works on the arrays in place
InPlace(name, a, t) ==
    /\ Becomes(t)
    /\ op' = name
    /\ arg' = a
    /\ pre' = This
    /\ roundTrip' = /\ op = name
                    /\ name = "setUpAxis" => (pre.upAxis # upAxis /\ t.upAxis = pre.upAxis)

\* Torus::Torus
Init ==
    \E gR \in UninitFloats, gr \in UninitFloats,
       majorR \in SetMajorRadiusInputs, minorR \in MinorRadiusInputs,
       shape \in SetShapeInputs, up \in UpInputs :
        \E t \in {set(Uninitialized(gR, gr), majorR, minorR, shape[1], shape[2], shape[3], up)} :
            /\ majorRadius = t.majorRadius
            /\ minorRadius = t.minorRadius
            /\ sectorCount = t.sectorCount
            /\ sideCount = t.sideCount
            /\ smooth = t.smooth
            /\ upAxis = t.upAxis
            /\ vertices = t.vertices
            /\ normals = t.normals
            /\ texCoords = t.texCoords
            /\ indices = t.indices
            /\ lineIndices = t.lineIndices
            /\ interleavedVertices = t.interleavedVertices
            /\ op = "Torus"
            /\ arg = Args(majorR, minorR, shape[1], shape[2], shape[3], up)
            /\ pre = NoObject
            /\ roundTrip = FALSE

Set ==
    \E majorR \in SetMajorRadiusInputs, minorR \in MinorRadiusInputs,
       shape \in SetShapeInputs, up \in UpInputs :
        Rebuild("set", Args(majorR, minorR, shape[1], shape[2], shape[3], up),
                set(This, majorR, minorR, shape[1], shape[2], shape[3], up))

SetMajorRadius ==
    \E r \in MajorRadiusInputs :
        Rebuild("setMajorRadius", [NoArg EXCEPT !.majorR = r], setMajorRadius(This, r))

SetMinorRadius ==
    \E r \in MinorRadiusInputs :
        Rebuild("setMinorRadius", [NoArg EXCEPT !.minorR = r], setMinorRadius(This, r))

SetSectorCount ==
    \E sectors \in SectorInputs :
        Rebuild("setSectorCount", [NoArg EXCEPT !.sectors = sectors],
                setSectorCount(This, sectors))

SetSideCount ==
    \E sides \in SideInputs :
        Rebuild("setSideCount", [NoArg EXCEPT !.sides = sides],
                setSideCount(This, sides))

SetSmooth ==
    \E sm \in BOOLEAN :
        Rebuild("setSmooth", [NoArg EXCEPT !.smooth = sm], setSmooth(This, sm))

SetUpAxis ==
    \E up \in UpInputs :
        InPlace("setUpAxis", [NoArg EXCEPT !.up = up], setUpAxis(This, up))

ReverseNormals == InPlace("reverseNormals", NoArg, reverseNormals(This))

Next ==
    \/ Set
    \/ SetMajorRadius
    \/ SetMinorRadius
    \/ SetSectorCount
    \/ SetSideCount
    \/ SetSmooth
    \/ SetUpAxis
    \/ ReverseNormals

Spec == Init /\ [][Next]_vars

\* ------------------------------------------------------------------------
\* the counts that the object reports (Torus.h)
\* ------------------------------------------------------------------------
getVertexCount == Len(vertices) \div 3
getNormalCount == Len(normals) \div 3
getTexCoordCount == Len(texCoords) \div 2
getIndexCount == Len(indices)
getLineIndexCount == Len(lineIndices)
getTriangleCount == getIndexCount \div 3

\* the object that set would generate from the members as they are stored
Regenerated == build(NoArrays(This))

\* the normal fields of an interleaved buffer, vertex by vertex
NormalFields(iv) ==
    [e \in 1..(3 * (Len(iv) \div 8)) |-> At(iv, 8 * ((e - 1) \div 3) + 3 + ((e - 1) % 3))]

\* ------------------------------------------------------------------------
\* properties
\* ------------------------------------------------------------------------

\* C1: in every state reachable from the constructor by any sequence of the
\* public mutators, the vertex, normal and texture-coordinate counts are
\* equal, and every entry of indices and of lineIndices is less than the
\* vertex count.
ArraysAgreeAndIndicesInRange ==
    /\ getVertexCount = getNormalCount
    /\ getNormalCount = getTexCoordCount
    /\ \A e \in 1..Len(indices) : indices[e] >= 0 /\ indices[e] < getVertexCount
    /\ \A e \in 1..Len(lineIndices) :
           lineIndices[e] >= 0 /\ lineIndices[e] < getVertexCount

\* a mesh whose winding reverseNormals has just swapped and whose triangles
\* reach the last vertex
ReversedWithLastVertexIndexed ==
    /\ op = "reverseNormals"
    /\ pre.indices # indices
    /\ getVertexCount > 0
    /\ \E e \in 1..Len(indices) : indices[e] = getVertexCount - 1

\* C2: in every reachable state the interleaved buffer holds 8 floats per
\* vertex: floats 8i..8i+2 are position i, floats 8i+3..8i+5 are normal i and
\* floats 8i+6..8i+7 are texture coordinate i.
InterleavedMirrorsArrays ==
    /\ Len(interleavedVertices) = 8 * getVertexCount
    /\ \A i \in 0..(getVertexCount - 1) :
        /\ \A c \in 0..2 :
            /\ At(interleavedVertices, 8 * i + c) = At(vertices, 3 * i + c)
            /\ At(interleavedVertices, 8 * i + 3 + c) = At(normals, 3 * i + c)
        /\ \A c \in 0..1 :
            At(interleavedVertices, 8 * i + 6 + c) = At(texCoords, 2 * i + c)

\* a mesh that setUpAxis has just remapped in place
RemappedInPlace ==
    /\ op = "setUpAxis"
    /\ pre.vertices # vertices
    /\ pre.normals # normals
    /\ getVertexCount > 0

StoredRadiiPositive ==
    /\ FGt(majorRadius, 0)
    /\ FGt(minorRadius, 0)

\* an object constructed with a major radius that is not positive
ConstructedWithoutMajorRadius ==
    /\ op = "Torus"
    /\ ~FGt(arg.majorR, 0)
    /\ ~FGt(majorRadius, 0)

\* C5: a call of set, setMajorRadius or setMinorRadius with a radius that is
\* not positive leaves that stored radius as it was, stores the other
\* arguments of the call, and leaves the mesh that is generated from the
\* stored members.
NonPositiveRadiusKeepsPrior ==
    [][ /\ (op' \in {"set", "setMajorRadius"} /\ ~FGt(arg'.majorR, 0)) =>
               /\ majorRadius' = majorRadius
               /\ This' = Regenerated'
        /\ (op' \in {"set", "setMinorRadius"} /\ ~FGt(arg'.minorR, 0)) =>
               /\ minorRadius' = minorRadius
               /\ This' = Regenerated'
        /\ (op' = "set" /\ (~FGt(arg'.majorR, 0) \/ ~FGt(arg'.minorR, 0))) =>
               /\ FGt(arg'.majorR, 0) => majorRadius' = arg'.majorR
               /\ FGt(arg'.minorR, 0) => minorRadius' = arg'.minorR
               /\ sectorCount' = (IF arg'.sectors < 3 THEN 3 ELSE arg'.sectors)
               /\ sideCount' = (IF arg'.sides < 2 THEN 2 ELSE arg'.sides)
               /\ smooth' = arg'.smooth
               /\ upAxis' = (IF arg'.up \in 1..3 THEN arg'.up ELSE 3)
      ]_vars

\* setMinorRadius(0) on an object whose minor radius the constructor left
\* unset and which holds zero: the call returned at once, and the arrays are
\* not those generated from the stored members
UnsetRadiusComparedEqual ==
    /\ op = "setMinorRadius"
    /\ arg.minorR = 0
    /\ minorRadius = 0
    /\ This # Regenerated

\* C5 on an object whose stored radii are positive: the same three
\* implications, for the steps that start with both radii greater than zero
NonPositiveRadiusKeepsPositivePrior ==
    [][ (FGt(majorRadius, 0) /\ FGt(minorRadius, 0)) =>
        /\ (op' \in {"set", "setMajorRadius"} /\ ~FGt(arg'.majorR, 0)) =>
               /\ majorRadius' = majorRadius
               /\ This' = Regenerated'
        /\ (op' \in {"set", "setMinorRadius"} /\ ~FGt(arg'.minorR, 0)) =>
               /\ minorRadius' = minorRadius
               /\ This' = Regenerated'
        /\ (op' = "set" /\ (~FGt(arg'.majorR, 0) \/ ~FGt(arg'.minorR, 0))) =>
               /\ FGt(arg'.majorR, 0) => majorRadius' = arg'.majorR
               /\ FGt(arg'.minorR, 0) => minorRadius' = arg'.minorR
               /\ sectorCount' = (IF arg'.sectors < 3 THEN 3 ELSE arg'.sectors)
               /\ sideCount' = (IF arg'.sides < 2 THEN 2 ELSE arg'.sides)
               /\ smooth' = arg'.smooth
               /\ upAxis' = (IF arg'.up \in 1..3 THEN arg'.up ELSE 3)
      ]_vars

\* C6: after the constructor or set with an up axis outside 1..3 the stored up
\* axis is 3 and the mesh is the Z-up mesh of the stored parameters; with an
\* up axis in 1..3 the stored up axis is the one given; in every reachable
\* state the stored up axis is in 1..3.
UpAxisDefaultsToZ ==
    /\ upAxis \in 1..3
    /\ op \in {"Torus", "set"} =>
           upAxis = IF arg.up \in 1..3 THEN arg.up ELSE 3
    /\ (op \in {"Torus", "set"} /\ arg.up \notin 1..3) =>
           This = build(Object(majorRadius, minorRadius, sectorCount, sideCount,
                               smooth, 3))

\* set called with up axis 4
SetWithUpAxisFour ==
    /\ op = "set"
    /\ arg.up = 4
    /\ upAxis = 3
    /\ getVertexCount > 0

\* C7: in every reachable state with smooth shading, for sector count n and
\* side count m, there are (n+1)*(m+1) vertices, 2*n*m triangles and 4*n*m
\* line indices, whatever was built before.
SmoothCounts ==
    smooth =>
        /\ getVertexCount = (sectorCount + 1) * (sideCount + 1)
        /\ Len(vertices) = 3 * getVertexCount
        /\ getTriangleCount = 2 * sectorCount * sideCount
        /\ getIndexCount = 3 * getTriangleCount
        /\ getLineIndexCount = 4 * sectorCount * sideCount

\* a smooth mesh of 4 sectors and 3 sides, built over a flat one by setSmooth
SmoothFourByThree ==
    /\ op = "setSmooth"
    /\ smooth
    /\ sectorCount = 4
    /\ sideCount = 3
    /\ getVertexCount = 20
    /\ getTriangleCount = 24
    /\ getLineIndexCount = 48

\* C8: in every reachable state with flat shading, for sector count n and side
\* count m, there are 4*n*m vertices and 2*n*m triangles, also after
\* setSmooth(false) on a smooth mesh and after any number of rebuilds.
FlatCounts ==
    ~smooth =>
        /\ getVertexCount = 4 * sectorCount * sideCount
        /\ Len(vertices) = 3 * getVertexCount
        /\ getTriangleCount = 2 * sectorCount * sideCount
        /\ getIndexCount = 3 * getTriangleCount

\* a flat mesh of 4 sectors and 3 sides, built over a smooth one by
\* setSmooth(false)
FlatFourByThree ==
    /\ op = "setSmooth"
    /\ arg.smooth = FALSE
    /\ ~smooth
    /\ sectorCount = 4
    /\ sideCount = 3
    /\ getVertexCount = 48
    /\ getTriangleCount = 24

\* C9: a second reverseNormals right after a first one leaves the normals,
\* the normal fields of the interleaved buffer and the triangle indices as
\* they were before the first.
ReverseNormalsTwiceRestores ==
    [][ (op = "reverseNormals" /\ op' = "reverseNormals") =>
            /\ normals' = pre.normals
            /\ NormalFields(interleavedVertices') = NormalFields(pre.interleavedVertices)
            /\ indices' = pre.indices
      ]_vars

\* two reverseNormals calls in a row on a mesh with a normal that is not zero
ReversedTwice ==
    /\ op = "reverseNormals"
    /\ roundTrip
    /\ pre.normals # normals
    /\ pre.indices # indices

\* the squared length of the vector at offset i of v
SquaredLength(v, i) ==
    FAdd(FAdd(FMul(At(v, i), At(v, i)), FMul(At(v, i + 1), At(v, i + 1))),
         FMul(At(v, i + 2), At(v, i + 2)))

\* w is v with the three components of every vector permuted by p and
\* multiplied by the signs s
SignedPermutation(v, w, p, s) ==
    /\ Len(w) = Len(v)
    /\ \A e \in 1..Len(v) :
           LET k == e - 1
               i == 3 * (k \div 3)
           IN  w[e] = FMul(ToFloat(s[(k % 3) + 1]), At(v, i + p[(k % 3) + 1]))

\* C10: on a torus with up axis a, setUpAxis(b) followed by setUpAxis(a), for
\* distinct a and b, leaves every position, every normal and the interleaved
\* buffer as they were before the two calls; and a single setUpAxis that
\* changes the axis permutes the three components of every position and
\* normal and changes signs, so that every vector keeps its length.
UpAxisRoundTripRestores ==
    [][ /\ (/\ op = "setUpAxis" /\ pre.upAxis # upAxis
            /\ op' = "setUpAxis" /\ upAxis' = pre.upAxis) =>
               /\ vertices' = pre.vertices
               /\ normals' = pre.normals
               /\ interleavedVertices' = pre.interleavedVertices
        /\ (op' = "setUpAxis" /\ upAxis' # upAxis) =>
               /\ \E p \in {q \in [1..3 -> 0..2] : {q[1], q[2], q[3]} = 0..2} :
                  \E s \in [1..3 -> {0 - 1, 1}] :
                      /\ SignedPermutation(vertices, vertices', p, s)
                      /\ SignedPermutation(normals, normals', p, s)
               /\ \A i \in 0..(getVertexCount - 1) :
                      /\ SquaredLength(vertices', 3 * i) = SquaredLength(vertices, 3 * i)
                      /\ SquaredLength(normals', 3 * i) = SquaredLength(normals, 3 * i)
      ]_vars

\* setUpAxis(b) and then setUpAxis(a) on a torus with up axis a, both of which
\* moved the vertices
UpAxisWentBack ==
    /\ op = "setUpAxis"
    /\ roundTrip
    /\ arg.up = upAxis
    /\ pre.upAxis # upAxis
    /\ pre.vertices # vertices

\* the members of TorusSpec are the same before and after the step
SpecFieldsKept ==
    /\ majorRadius' = majorRadius
    /\ minorRadius' = minorRadius
    /\ sectorCount' = sectorCount
    /\ sideCount' = sideCount
    /\ smooth' = smooth
    /\ upAxis' = upAxis

\* C11: reverseNormals changes only the normals, the normal fields of the
\* interleaved buffer and the order of the indices inside each triangle (first
\* and last index of every triple swapped, middle index kept): positions,
\* texture coordinates, line indices, the lengths of all arrays and the radii,
\* counts, shading mode and up axis are as before the call.
ReverseNormalsChangesOnlyNormalsAndWinding ==
    [][ op' = "reverseNormals" =>
            /\ SpecFieldsKept
            /\ vertices' = vertices
            /\ texCoords' = texCoords
            /\ lineIndices' = lineIndices
            /\ Len(normals') = Len(normals)
            /\ Len(indices') = Len(indices)
            /\ Len(interleavedVertices') = Len(interleavedVertices)
            /\ \A e \in 1..Len(interleavedVertices) :
                   ((e - 1) % 8) \notin 3..5 =>
                       interleavedVertices'[e] = interleavedVertices[e]
            /\ NormalFields(interleavedVertices') = normals'
            /\ \A i \in 0..(getTriangleCount - 1) :
                   /\ At(indices', 3 * i) = At(indices, 3 * i + 2)
                   /\ At(indices', 3 * i + 1) = At(indices, 3 * i + 1)
                   /\ At(indices', 3 * i + 2) = At(indices, 3 * i)
      ]_vars

\* a first reverseNormals on a mesh with lines, which changed the normals and
\* the winding
ReversedOnce ==
    /\ op = "reverseNormals"
    /\ ~roundTrip
    /\ pre.normals # normals
    /\ pre.indices # indices
    /\ pre.lineIndices = lineIndices
    /\ Len(lineIndices) > 0

\* C12: setUpAxis(up) with up equal to the stored up axis, or with up outside
\* 1..3, changes nothing: the stored up axis and all six arrays are as before
\* the call; an up axis outside 1..3 does not reset the axis to Z.
SetUpAxisSameOrInvalidIsNoOp ==
    [][ (op' = "setUpAxis" /\ (arg'.up = upAxis \/ arg'.up \notin 1..3)) =>
            This' = This
      ]_vars

\* setUpAxis(4) on a generated mesh whose up axis is not Z
SetUpAxisFourIgnored ==
    /\ op = "setUpAxis"
    /\ arg.up = 4
    /\ upAxis # 3
    /\ pre = This
    /\ getVertexCount > 0

\* C13: each of setMajorRadius, setMinorRadius, setSectorCount, setSideCount
\* and setSmooth, called with a value that differs from the stored one,
\* leaves the object that set leaves when it is given that value and the
\* stored values of the other members; called with the stored value it
\* changes nothing.
SetterIsSetWithStoredOthers ==
    [][ /\ op' = "setMajorRadius" =>
               This' = IF FNe(arg'.majorR, majorRadius)
                       THEN set(This, arg'.majorR, minorRadius, sectorCount,
                                sideCount, smooth, upAxis)
                       ELSE This
        /\ op' = "setMinorRadius" =>
               This' = IF FNe(arg'.minorR, minorRadius)
                       THEN set(This, majorRadius, arg'.minorR, sectorCount,
                                sideCount, smooth, upAxis)
                       ELSE This
        /\ op' = "setSectorCount" =>
               This' = IF arg'.sectors # sectorCount
                       THEN set(This, majorRadius, minorRadius, arg'.sectors,
                                sideCount, smooth, upAxis)
                       ELSE This
        /\ op' = "setSideCount" =>
               This' = IF arg'.sides # sideCount
                       THEN set(This, majorRadius, minorRadius, sectorCount,
                                arg'.sides, smooth, upAxis)
                       ELSE This
        /\ op' = "setSmooth" =>
               This' = IF arg'.smooth # smooth
                       THEN set(This, majorRadius, minorRadius, sectorCount,
                                sideCount, arg'.smooth, upAxis)
                       ELSE This
      ]_vars

\* setSectorCount(4) that left a flat mesh of 4 sectors and 2 sides, which
\* neither the constructor nor set is given
SectorCountSetToFour ==
    /\ op = "setSectorCount"
    /\ arg.sectors = 4
    /\ sectorCount = 4
    /\ sideCount = 2
    /\ ~smooth
    /\ getVertexCount = 32

\* the triangles of the cells (i, j), 0 <= i < m, 0 <= j < n, in row-major
\* order: (k1, k2, k1+1) and (k1+1, k2, k2+1), k1 = i*(n+1)+j, k2 = k1+n+1
CellTriangles(n, m) ==
    [e \in 1..(6 * n * m) |->
        LET c == (e - 1) \div 6
            f == (e - 1) % 6
            k1 == (c \div n) * (n + 1) + (c % n)
            k2 == k1 + n + 1
        IN  CASE f = 0 -> k1
              [] f = 1 -> k2
              [] f = 2 -> k1 + 1
              [] f = 3 -> k1 + 1
              [] f = 4 -> k2
              [] f = 5 -> k2 + 1]

\* the lines of the same cells: (k1, k2) and (k1, k1+1)
CellLines(n, m) ==
    [e \in 1..(4 * n * m) |->
        LET c == (e - 1) \div 4
            f == (e - 1) % 4
            k1 == (c \div n) * (n + 1) + (c % n)
            k2 == k1 + n + 1
        IN  CASE f = 0 -> k1
              [] f = 1 -> k2
              [] f = 2 -> k1
              [] f = 3 -> k1 + 1]

SmoothLayout ==
    /\ indices = CellTriangles(sectorCount, sideCount)
    /\ lineIndices = CellLines(sectorCount, sideCount)

\* the step is a call that ran a builder: set, or a single-field setter whose
\* argument differs from the stored member
BuilderRan ==
    \/ op' = "set"
    \/ op' = "setMajorRadius" /\ FNe(arg'.majorR, majorRadius)
    \/ op' = "setMinorRadius" /\ FNe(arg'.minorR, minorRadius)
    \/ op' = "setSectorCount" /\ arg'.sectors # sectorCount
    \/ op' = "setSideCount" /\ arg'.sides # sideCount
    \/ op' = "setSmooth" /\ arg'.smooth # smooth

\* C14: right after a smooth build with sector count n and side count m, the
\* triangle indices are, for the cells (i, j) in row-major order with
\* k1 = i*(n+1)+j and k2 = k1+n+1, the triples (k1, k2, k1+1) and
\* (k1+1, k2, k2+1), the line indices are the pairs (k1, k2) and (k1, k1+1),
\* and there is nothing else in either array.
SmoothIndexLayout ==
    /\ (op = "Torus" /\ smooth) => SmoothLayout
    /\ [][ (BuilderRan /\ smooth') => SmoothLayout' ]_vars

\* a smooth mesh of 4 sectors and 3 sides left by setSideCount
SmoothFourByThreeBySideCount ==
    /\ op = "setSideCount"
    /\ smooth
    /\ sectorCount = 4
    /\ sideCount = 3
    /\ getIndexCount = 72
    /\ getLineIndexCount = 48
    /\ At(indices, 71) = 19

\* C15: in every reachable state with flat shading, also after setUpAxis and
\* reverseNormals, the vertices come in consecutive groups of 4, one per quad:
\* the 4 normals of a group are equal, every triangle refers to vertices of
\* one group only, every group is referred to by exactly 2 triangles, and
\* the lines of quad q are (4q, 4q+1) and (4q, 4q+2).
FlatQuadGroups ==
    ~smooth =>
        /\ getVertexCount % 4 = 0
        /\ getLineIndexCount = 4 * (getVertexCount \div 4)
        /\ \A q \in 0..((getVertexCount \div 4) - 1) :
            /\ \A v \in 1..3 : \A c \in 0..2 :
                   At(normals, 3 * (4 * q + v) + c) = At(normals, 3 * (4 * q) + c)
            /\ Cardinality({tri \in 0..(getTriangleCount - 1) :
                                At(indices, 3 * tri) \div 4 = q}) = 2
            /\ At(lineIndices, 4 * q) = 4 * q
            /\ At(lineIndices, 4 * q + 1) = 4 * q + 1
            /\ At(lineIndices, 4 * q + 2) = 4 * q
            /\ At(lineIndices, 4 * q + 3) = 4 * q + 2
        /\ \A tri \in 0..(getTriangleCount - 1) :
            /\ At(indices, 3 * tri + 1) \div 4 = At(indices, 3 * tri) \div 4
            /\ At(indices, 3 * tri + 2) \div 4 = At(indices, 3 * tri) \div 4

\* a flat mesh off the Z axis whose normals reverseNormals has just negated
FlatReversedOffZ ==
    /\ ~smooth
    /\ op = "reverseNormals"
    /\ upAxis # 3
    /\ pre.normals # normals
    /\ getVertexCount = 4 * sectorCount * sideCount
    /\ getVertexCount > 0

\* the winding is the generated one: reverseNormals, which exchanges the
\* first and last index of every triangle, has not been applied to the
\* arrays since they were built (or has been applied and undone)
NotReversed == indices = Regenerated.indices

\* C16: setUpAxis(a) with a valid a that differs from the stored up axis, in
\* any state reached by rebuilds and earlier setUpAxis calls, leaves the
\* positions, normals and interleaved buffer that set leaves when it is given
\* the stored parameters and a, whatever the order of the earlier axis
\* changes.
UpAxisChangeEqualsRegeneration ==
    [][ (op' = "setUpAxis" /\ upAxis' # upAxis /\ NotReversed) =>
            /\ vertices' = Regenerated'.vertices
            /\ normals' = Regenerated'.normals
            /\ interleavedVertices' = Regenerated'.interleavedVertices
      ]_vars

\* setUpAxis(2) on a mesh with positive radii that was generated with up
\* axis 1: the positions are not those generated with up axis 2
RemappedFromXToY ==
    /\ op = "setUpAxis"
    /\ arg.up = 2
    /\ upAxis = 2
    /\ pre.upAxis = 1
    /\ pre = build(NoArrays(pre))
    /\ FGt(majorRadius, 0)
    /\ FGt(minorRadius, 0)
    /\ NotReversed
    /\ vertices # Regenerated.vertices

\* C16 for the changes from or to the Z axis of a mesh that is as generated:
\* the builders remap from Z with the matrix that setUpAxis uses, and the
\* matrix to Z is its inverse
UpAxisChangeFromOrToZEqualsRegeneration ==
    [][ (/\ op' = "setUpAxis" /\ upAxis' # upAxis
         /\ This = Regenerated
         /\ (upAxis = 3 \/ upAxis' = 3)) =>
            /\ vertices' = Regenerated'.vertices
            /\ normals' = Regenerated'.normals
            /\ interleavedVertices' = Regenerated'.interleavedVertices
      ]_vars

\* arguments of the set calls that are compared: the major radius replaced,
\* the minor radius kept (0 is not stored), both shapes, up axis 1
RebuildArguments == {ToFloat(3)} \X {0} \X SetShapeInputs \X {1}

\* C17: a rebuild does not depend on the history of the object: from every
\* reachable state, whatever sequence of calls (reverseNormals and chains of
\* setUpAxis included) led to it, set(R, r, sectors, sides, smooth, up)
\* leaves the stored members and the six arrays that the same call leaves on
\* an object with the same stored radii and no arrays; an earlier reversal of
\* normals and winding is discarded.
RebuildIsHistoryIndependent ==
    \A a \in RebuildArguments :
        /\ set(This, a[1], a[2], a[3][1], a[3][2], a[3][3], a[4])
             = set(Uninitialized(majorRadius, minorRadius),
                   a[1], a[2], a[3][1], a[3][2], a[3][3], a[4])
        /\ buildDirect([This EXCEPT !.majorRadius = storedRadius(@, a[1]),
                                    !.minorRadius = storedRadius(@, a[2]),
                                    !.sectorCount = clampSectorCount(a[3][1]),
                                    !.sideCount = clampSideCount(a[3][2]),
                                    !.smooth = a[3][3],
                                    !.upAxis = clampUpAxis(a[4])])
             = set(Uninitialized(majorRadius, minorRadius),
                   a[1], a[2], a[3][1], a[3][2], a[3][3], a[4])

\* an object with reversed normals and winding whose positions, after a chain
\* of axis changes, are not those that a rebuild generates
ReversedAfterAxisChanges ==
    /\ op = "reverseNormals"
    /\ ~NotReversed
    /\ normals # Regenerated.normals
    /\ vertices # Regenerated.vertices
    /\ FGt(majorRadius, 0)
    /\ FGt(minorRadius, 0)

\* the object that set generates from the stored members with up axis Z: its
\* arrays are what the builders sample before they remap
ZFrame ==
    build(Object(majorRadius, minorRadius, sectorCount, sideCount, smooth, 3))

\* C18: in every state reached by rebuilds and setUpAxis calls, for every
\* vertex the position component on the stored up axis (x if 1, y if 2, z if
\* 3) is, with positive sign, the z that the builder sampled for that vertex
\* in the Z-up frame, and the normal component on that axis is the z
\* component of the sampled normal.
UpAxisHoldsHeight ==
    NotReversed =>
        \A i \in 0..(getVertexCount - 1) :
            /\ At(vertices, 3 * i + upAxis - 1) = At(ZFrame.vertices, 3 * i + 2)
            /\ At(normals, 3 * i + upAxis - 1) = At(ZFrame.normals, 3 * i + 2)

\* setUpAxis(1) on a mesh with up axis 2 and positive radii, which left
\* positions that set does not generate and a vertex off the plane of the
\* torus
RemappedFromYToXWithHeight ==
    /\ op = "setUpAxis"
    /\ pre.upAxis = 2
    /\ upAxis = 1
    /\ NotReversed
    /\ FGt(majorRadius, 0)
    /\ FGt(minorRadius, 0)
    /\ vertices # Regenerated.vertices
    /\ \E i \in 0..(getVertexCount - 1) :
           /\ At(vertices, 3 * i) # 0
           /\ At(normals, 3 * i) # 0

====
